---- MODULE Spec2Model ----
(***************************************************************************)
(* Prediction orchestrator of the camera node (the API server that is      *)
(* concatenated after the dashboard component in                           *)
(* src/src/components/PredictionLog.tsx, lines 173-507).                   *)
(*                                                                         *)
(* The server is a single-threaded event loop.  Every action below is one  *)
(* callback of that loop together with the promise continuations           *)
(* (microtasks) it triggers: a timer firing, a child-process event, or the *)
(* completion of the HTTP request to the prediction API.                   *)
(*                                                                         *)
(* Abstractions.  imageBuffer is represented by hasData (the code sets     *)
(* hasData exactly when it appends a chunk).  The timestamp and the        *)
(* opaque result of a record are dropped: no code branches on them.  An    *)
(* error message is represented by the handler that produced it.  The      *)
(* clock advances in steps of the timer period, of which the capture       *)
(* timeout is a multiple; events between two clock steps are unordered.    *)
(*                                                                         *)
(* The second half of the module is the stream server                      *)
(* (src/unnamed/part_002): camera detection, resolution negotiation and    *)
(* the per-camera MJPEG streams.  The two programs are separate processes; *)
(* each specification moves the variables of one part and leaves the       *)
(* others at rest.                                                         *)
(***************************************************************************)
EXTENDS Integers, Sequences, FiniteSets, TLC

\* ---------------------------------------------------------------- bounds
MaxCams     == 2   \* devices that detection can find
MaxCaptures == 2   \* captureFrame calls explored in one run (cameras x ticks)
WarmOk      == 100 \* SpecWarm: earlier ticks in which camera 0 got a prediction
WarmFailed  == 25  \* SpecWarm: earlier ticks in which camera 0's capture failed

\* ------------------------------------------------------ program constants
MAX_PREDICTIONS     == 100      \* predictions.length > 100
MAX_SYSTEM_ERRORS   == 50       \* systemErrors.length > 50
PREDICTION_INTERVAL == 2000     \* setInterval(predictionLoop, 2000)
CAPTURE_TIMEOUT     == 10000    \* setTimeout(..., 10000)
STREAM_BASE_PORT    == 20000    \* streamPort: 20000 + i

\* The rosters getModelList can return: the API's answer (possibly empty,
\* `response.data || []`) or the fallback pair of its catch branch.
FallbackModels == <<"bacterial-disease", "early-blight">>
Rosters == { <<>>, <<"A">>, FallbackModels, <<"A", "B", "C">> }

CamIds == 0 .. (MaxCams - 1)
Ticks  == 1 .. MaxCaptures
MaxTime == MaxCaptures * PREDICTION_INTERVAL + CAPTURE_TIMEOUT

\* Firings of the interval timer explored with n cameras.
MaxTicks(n) == IF n = 0 THEN 0 ELSE MaxCaptures \div n

VARIABLES
    cameras,            \* let cameras = []
    currentModels,      \* let currentModels = []
    currentModelIndex,  \* let currentModelIndex = 0
    predictions,        \* let predictions = []      (newest first)
    systemErrors,       \* let systemErrors = []     (newest first)
    phase,              \* "boot" until initialize() has run, then "running"
    intervalSet,        \* setInterval(predictionLoop, ...) has been called
    ticksFired,         \* number of firings of the interval timer so far
    now,                \* clock, in ms since initialize()
    tickModel,          \* per predictionLoop call: its const currentModel
    cap,                \* per predictionLoop call and camera: the captureFrame
                        \* closure (promise, subprocess, hasData, timer) and
                        \* the state of the sendPrediction that follows it
    completed           \* ticks in the order their Promise.all continuation ran

orchVars == << cameras, currentModels, currentModelIndex, predictions, systemErrors,
               phase, intervalSet, ticksFired, now, tickModel, cap, completed >>

\* Resolution negotiation (detectCameraResolution's 'close' handler) as a
\* function of the probe's output.
VARIABLES
    nPlatform,          \* os.platform()
    nOutput,            \* what the probe wrote to stderr
    nSelected           \* the resolution resolved, "none" before

negVars == << nPlatform, nOutput, nSelected >>

\* Camera detection (detectCameras of both programs) and the probes it
\* awaits one after another.
VARIABLES
    dProgram,           \* "api" (PredictionLog.tsx) or "streams" (part_002)
    dPlatform,          \* os.platform()
    dPhase,             \* "start", "listing", "probing", "done", "crashed"
    dTool,              \* the dshow device-listing subprocess
    dDevices,           \* cameraDevices / deviceNames
    dDetected,          \* detectedCameras
    dError,             \* the enumeration error that happened, "none" if none
    dProbes,            \* per device index: the detectCameraResolution closure
    dNow                \* clock, in ms since detectCameras() was called

detVars == << dProgram, dPlatform, dPhase, dTool, dDevices, dDetected, dError,
              dProbes, dNow >>

\* The MJPEG streams (main, startCameraStream) of src/unnamed/part_002.
VARIABLES
    sPhase,             \* "detected" until main has started the streams
    sCameras,           \* const cameras = await detectCameras()
    sProcs,             \* every subprocess spawned so far, in spawn order
    ffmpegProcesses,    \* const ffmpegProcesses = []  (indices into sProcs)
    httpServers,        \* const httpServers = []
    viewers             \* every /stream connection accepted so far

strVars == << sPhase, sCameras, sProcs, ffmpegProcesses, httpServers, viewers >>

notOrch == << negVars, detVars, strVars >>
notNeg  == << orchVars, detVars, strVars >>
notDet  == << orchVars, negVars, strVars >>
notStr  == << orchVars, negVars, detVars >>

vars == << orchVars, negVars, detVars, strVars >>

\* A captureFrame closure that has not been created.
IdleCapture ==
    [ st       |-> "idle",     \* promise: idle, pending, resolved, rejected
      reason   |-> "none",     \* rejection: capture, spawn, timeout
      proc     |-> "none",     \* subprocess: none, running, failed, closed
      code     |-> -1,         \* exit code passed to 'close' (-1: not closed)
      hasData  |-> FALSE,
      timer    |-> "none",     \* the 10 s timer: none, armed, fired
      killed   |-> FALSE,      \* ffmpeg.kill('SIGTERM') was called
      launched |-> 0,          \* time of spawn / setTimeout
      infer    |-> "none" ]    \* sendPrediction: none, pending, ok, fail

\* ------------------------------------------------------------- helpers

\* UnshiftTrim without the slice.
UnshiftNoTrim(buf, rec, limit) == <<rec>> \o buf

\* UnshiftTrim that puts the record last and drops the first at the limit.
PushTrim(buf, rec, limit) ==
    LET grown == buf \o <<rec>>
    IN  IF Len(grown) > limit THEN SubSeq(grown, 2, Len(grown)) ELSE grown

\* Array.prototype.unshift followed by the length test and slice(0, limit).
UnshiftTrim(buf, rec, limit) ==
    LET grown == <<rec>> \o buf
    IN  IF Len(grown) > limit THEN SubSeq(grown, 1, limit) ELSE grown

\* addSystemError(cameraId, error)
addSystemError(errs, cameraId, error) ==
    UnshiftTrim(errs, [cameraId |-> cameraId, error |-> error], MAX_SYSTEM_ERRORS)

\* sendPrediction, lines 404-414: build the record, unshift, trim.
addPrediction(preds, cameraId, model) ==
    UnshiftTrim(preds, [cameraId |-> cameraId, model |-> model], MAX_PREDICTIONS)

\* detectCameras: ids and ports by enumeration order.
detectCameras(n) ==
    [ i \in 1 .. n |-> [ id |-> i - 1, streamPort |-> STREAM_BASE_PORT + (i - 1) ] ]

\* NextModelIndex without the modulo.
NextModelIndexNoWrap(idx, len) == idx + 1

\* NextModelIndex that wraps one step late.
NextModelIndexWrapLate(idx, len) == IF idx + 1 > len THEN 0 ELSE idx + 1

\* currentModelIndex = (currentModelIndex + 1) % currentModels.length
NextModelIndex(idx, len) == (idx + 1) % len

\* ids of the cameras in the list
CameraIds(cams) == { cams[i].id : i \in 1 .. Len(cams) }

\* The async callback of cameras.map has returned (its promise is settled).
Settled(x) == x.st = "rejected" \/ x.infer \in {"ok", "fail"}
Outstanding(x) == x.st # "idle" /\ ~Settled(x)

\* The variables of the negotiation are not in use.
NegAtRest ==
    /\ nPlatform = "none"
    /\ nOutput = <<>>
    /\ nSelected = "none"

MaxDevices == 2         \* video devices the platform can list

DeviceIds == 0 .. (MaxDevices - 1)

\* A detectCameraResolution closure that has not been created.
IdleProbe ==
    [ st |-> "idle", value |-> "none", by |-> "none", proc |-> "none",
      timer |-> "none", killed |-> FALSE, launched |-> 0 ]

DetAtRest ==
    /\ dProgram = "none"
    /\ dPlatform = "none"
    /\ dPhase = "idle"
    /\ dTool = "none"
    /\ dDevices = <<>>
    /\ dDetected = <<>>
    /\ dError = "none"
    /\ dProbes = [i \in DeviceIds |-> IdleProbe]
    /\ dNow = 0

StrAtRest ==
    /\ sPhase = "idle"
    /\ sCameras = <<>>
    /\ sProcs = <<>>
    /\ ffmpegProcesses = <<>>
    /\ httpServers = <<>>
    /\ viewers = <<>>

NotOrchAtRest == NegAtRest /\ DetAtRest /\ StrAtRest

\* ---------------------------------------------------------------- Init
Init ==
    /\ cameras = <<>>
    /\ currentModels = <<>>
    /\ currentModelIndex = 0
    /\ predictions = <<>>
    /\ systemErrors = <<>>
    /\ phase = "boot"
    /\ intervalSet = FALSE
    /\ ticksFired = 0
    /\ now = 0
    /\ tickModel = [t \in Ticks |-> "none"]
    /\ cap = [t \in Ticks |-> [c \in CamIds |-> IdleCapture]]
    /\ completed = <<>>
    /\ NotOrchAtRest

\* --------------------------------------------------------------- actions

\* initialize(): detection and model list, then the interval timer unless no
\* camera was found.
Initialize(n, roster) ==
    /\ phase = "boot"
    /\ cameras' = detectCameras(n)
    /\ currentModels' = roster
    /\ phase' = "running"
    /\ intervalSet' = (n # 0)
    /\ UNCHANGED << currentModelIndex, predictions, systemErrors, ticksFired, now,
                    tickModel, cap, completed >>
    /\ UNCHANGED notOrch

\* The interval timer is due.
IntervalDue ==
    /\ phase = "running"
    /\ intervalSet
    /\ ticksFired < MaxTicks(Len(cameras))
    /\ now = (ticksFired + 1) * PREDICTION_INTERVAL

\* NothingToDo without the test of the roster.
NothingToDoNoCameras(cams, models) == Len(cams) = 0

\* The test of predictionLoop, line 424.
NothingToDo(cams, models) == Len(cams) = 0 \/ Len(models) = 0

\* currentModels[currentModelIndex]: undefined outside the array.
ModelAt(models, idx) ==
    IF idx + 1 \in DOMAIN models THEN models[idx + 1] ELSE "undefined"

\* predictionLoop, lines 424-426: nothing to do.
PredictionLoopNoop ==
    /\ IntervalDue
    /\ NothingToDo(cameras, currentModels)
    /\ ticksFired' = ticksFired + 1
    /\ UNCHANGED << cameras, currentModels, currentModelIndex, predictions,
                    systemErrors, phase, intervalSet, now, tickModel, cap, completed >>
    /\ UNCHANGED notOrch

\* captureFrame(camera) up to the return of the promise: spawn, handlers, timer.
StartCapture(at) ==
    [ IdleCapture EXCEPT !.st = "pending", !.proc = "running", !.timer = "armed",
                         !.launched = at ]

\* PredictionLoopStart that moves the model it has read to the end of the
\* roster.
PredictionLoopStartRotatesRoster ==
    /\ IntervalDue
    /\ ~NothingToDo(cameras, currentModels)
    /\ LET t == ticksFired + 1
       IN  /\ ticksFired' = t
           /\ tickModel' = [tickModel EXCEPT ![t] = ModelAt(currentModels, currentModelIndex)]
           /\ cap' = [cap EXCEPT ![t] =
                        [c \in CamIds |-> IF c \in CameraIds(cameras)
                                          THEN StartCapture(now) ELSE IdleCapture]]
    /\ currentModels' = Tail(currentModels) \o << Head(currentModels) >>
    /\ UNCHANGED << cameras, currentModelIndex, predictions,
                    systemErrors, phase, intervalSet, now, completed >>
    /\ UNCHANGED notOrch

\* predictionLoop, lines 428-443: read the active model and start one
\* capture per camera; the call then waits in Promise.all.
PredictionLoopStart ==
    /\ IntervalDue
    /\ ~NothingToDo(cameras, currentModels)
    /\ LET t == ticksFired + 1
       IN  /\ ticksFired' = t
           /\ tickModel' = [tickModel EXCEPT ![t] = ModelAt(currentModels, currentModelIndex)]
           /\ cap' = [cap EXCEPT ![t] =
                        [c \in CamIds |-> IF c \in CameraIds(cameras)
                                          THEN StartCapture(now) ELSE IdleCapture]]
    /\ UNCHANGED << cameras, currentModels, currentModelIndex, predictions,
                    systemErrors, phase, intervalSet, now, completed >>
    /\ UNCHANGED notOrch

\* Every map callback of call t has returned in the tick newCap.
AllSettled(tc) == \A c \in CameraIds(cameras) : Settled(tc[c])

\* AfterPromiseAll that continues as soon as one map callback has returned
\* (Promise.race in place of Promise.all).
AfterPromiseRace(t, newCap) ==
    IF (\A c \in CameraIds(cameras) : ~Settled(cap[t][c]))
       /\ (\E c \in CameraIds(cameras) : Settled(newCap[t][c]))
    THEN /\ currentModelIndex' = NextModelIndex(currentModelIndex, Len(currentModels))
         /\ completed' = Append(completed, t)
    ELSE UNCHANGED << currentModelIndex, completed >>

\* predictionLoop, lines 443-445: the continuation of `await Promise.all`,
\* run when the last map callback of call t returns.
AfterPromiseAll(t, newCap) ==
    IF ~AllSettled(cap[t]) /\ AllSettled(newCap[t])
    THEN /\ currentModelIndex' = NextModelIndex(currentModelIndex, Len(currentModels))
         /\ completed' = Append(completed, t)
    ELSE UNCHANGED << currentModelIndex, completed >>

\* reject(new Error(...)) on the captureFrame promise: no effect once settled.
Reject(x, why) ==
    IF x.st = "pending" THEN [x EXCEPT !.st = "rejected", !.reason = why] ELSE x

\* ErrorsAfterFailure that records nothing.
ErrorsAfterFailureSilent(errs, x, cameraId, why) == errs

\* A failing handler of captureFrame: addSystemError, then reject; if the
\* promise was pending the catch of predictionLoop (lines 435-440) runs and
\* records the failure once more.
ErrorsAfterFailure(errs, x, cameraId, why) ==
    LET own == addSystemError(errs, cameraId, why)
    IN  IF x.st = "pending" THEN addSystemError(own, cameraId, "loop") ELSE own

\* ffmpeg.stdout.on('data'): lines 329-332.  Later chunks change nothing
\* that is modelled.
CaptureData(t, c) ==
    /\ cap[t][c].proc = "running"
    /\ ~cap[t][c].hasData
    /\ cap' = [cap EXCEPT ![t][c].hasData = TRUE]
    /\ UNCHANGED << cameras, currentModels, currentModelIndex, predictions,
                    systemErrors, phase, intervalSet, ticksFired, now, tickModel,
                    completed >>
    /\ UNCHANGED notOrch

\* CaptureSucceeded without the test of the buffer.
CaptureSucceededByCode(code, hasData) == code = 0

\* The test of the 'close' handler, line 340.
CaptureSucceeded(code, hasData) == code = 0 /\ hasData

\* ffmpeg.on('close'), success branch (lines 340-348): resolve; the map
\* callback goes on to sendPrediction, whose fetch is then in flight.
CaptureCloseOk(t, c) ==
    /\ cap[t][c].proc = "running"
    /\ CaptureSucceeded(0, cap[t][c].hasData)
    /\ cap' = [cap EXCEPT ![t][c] =
                 [@ EXCEPT !.proc = "closed", !.code = 0,
                           !.st = IF @ = "pending" THEN "resolved" ELSE @,
                           !.infer = IF cap[t][c].st = "pending" THEN "pending" ELSE @]]
    /\ UNCHANGED << cameras, currentModels, currentModelIndex, predictions,
                    systemErrors, phase, intervalSet, ticksFired, now, tickModel,
                    completed >>
    /\ UNCHANGED notOrch

\* ffmpeg.on('close'), failure branch (lines 353-358).  A subprocess that
\* failed to spawn closes with a negative code.
CaptureCloseFail(t, c, code) ==
    /\ cap[t][c].proc \in {"running", "failed"}
    /\ cap[t][c].proc = "failed" => code # 0
    /\ ~CaptureSucceeded(code, cap[t][c].hasData)
    /\ LET x == cap[t][c]
           newCap == [cap EXCEPT ![t][c] =
                        [Reject(x, "capture") EXCEPT !.proc = "closed", !.code = code]]
       IN  /\ cap' = newCap
           /\ systemErrors' = ErrorsAfterFailure(systemErrors, x, c, "capture")
           /\ AfterPromiseAll(t, newCap)
    /\ UNCHANGED << cameras, currentModels, predictions, phase, intervalSet,
                    ticksFired, now, tickModel >>
    /\ UNCHANGED notOrch

\* ffmpeg.on('error'), lines 361-366: the subprocess could not be spawned.
CaptureError(t, c) ==
    /\ cap[t][c].proc = "running"
    /\ ~cap[t][c].hasData
    /\ now = cap[t][c].launched
    /\ LET x == cap[t][c]
           newCap == [cap EXCEPT ![t][c] = [Reject(x, "spawn") EXCEPT !.proc = "failed"]]
       IN  /\ cap' = newCap
           /\ systemErrors' = ErrorsAfterFailure(systemErrors, x, c, "spawn")
           /\ AfterPromiseAll(t, newCap)
    /\ UNCHANGED << cameras, currentModels, predictions, phase, intervalSet,
                    ticksFired, now, tickModel >>
    /\ UNCHANGED notOrch

\* The timer of captureFrame is due.
TimeoutDue(x) == x.timer = "armed" /\ now = x.launched + CAPTURE_TIMEOUT

\* The setTimeout callback, lines 369-377, when hasData is false.
CaptureTimeoutKill(t, c) ==
    /\ TimeoutDue(cap[t][c])
    /\ ~cap[t][c].hasData
    /\ LET x == cap[t][c]
           newCap == [cap EXCEPT ![t][c] =
                        [Reject(x, "timeout") EXCEPT !.timer = "fired", !.killed = TRUE]]
       IN  /\ cap' = newCap
           /\ systemErrors' = ErrorsAfterFailure(systemErrors, x, c, "timeout")
           /\ AfterPromiseAll(t, newCap)
    /\ UNCHANGED << cameras, currentModels, predictions, phase, intervalSet,
                    ticksFired, now, tickModel >>
    /\ UNCHANGED notOrch

\* The setTimeout callback when hasData is true: the body is skipped.
CaptureTimeoutSkip(t, c) ==
    /\ TimeoutDue(cap[t][c])
    /\ cap[t][c].hasData
    /\ cap' = [cap EXCEPT ![t][c].timer = "fired"]
    /\ UNCHANGED << cameras, currentModels, currentModelIndex, predictions,
                    systemErrors, phase, intervalSet, ticksFired, now, tickModel,
                    completed >>
    /\ UNCHANGED notOrch

\* SendPredictionOk that keeps the record back until every camera of the
\* tick has settled, and drops it if one of them failed.
SendPredictionOkAfterAll(t, c) ==
    /\ cap[t][c].infer = "pending"
    /\ LET newCap == [cap EXCEPT ![t][c].infer = "ok"]
       IN  /\ cap' = newCap
           /\ predictions' =
                 IF \A d \in CameraIds(cameras) : newCap[t][d].infer = "ok"
                 THEN addPrediction(predictions, c, tickModel[t])
                 ELSE predictions
           /\ AfterPromiseAll(t, newCap)
    /\ UNCHANGED << cameras, currentModels, systemErrors, phase, intervalSet,
                    ticksFired, now, tickModel >>
    /\ UNCHANGED notOrch

\* SendPredictionOk that keeps the records of one call in the order of the
\* camera ids, whichever request returned first.
SendPredictionOkByCameraId(t, c) ==
    /\ cap[t][c].infer = "pending"
    /\ LET newCap == [cap EXCEPT ![t][c].infer = "ok"]
           rec    == [cameraId |-> c, model |-> tickModel[t]]
       IN  /\ cap' = newCap
           /\ predictions' =
                 IF \E d \in CamIds : d > c /\ cap[t][d].infer = "ok"
                 THEN << Head(predictions), rec >> \o Tail(predictions)
                 ELSE addPrediction(predictions, c, tickModel[t])
           /\ AfterPromiseAll(t, newCap)
    /\ UNCHANGED << cameras, currentModels, systemErrors, phase, intervalSet,
                    ticksFired, now, tickModel >>
    /\ UNCHANGED notOrch

\* SendPredictionOk that reads the model when the response arrives.
SendPredictionOkCurrentModel(t, c) ==
    /\ cap[t][c].infer = "pending"
    /\ LET newCap == [cap EXCEPT ![t][c].infer = "ok"]
       IN  /\ cap' = newCap
           /\ predictions' = addPrediction(predictions, c,
                                           ModelAt(currentModels, currentModelIndex))
           /\ AfterPromiseAll(t, newCap)
    /\ UNCHANGED << cameras, currentModels, systemErrors, phase, intervalSet,
                    ticksFired, now, tickModel >>
    /\ UNCHANGED notOrch

\* sendPrediction, lines 388-416: the response is ok and its body parses.
SendPredictionOk(t, c) ==
    /\ cap[t][c].infer = "pending"
    /\ LET newCap == [cap EXCEPT ![t][c].infer = "ok"]
       IN  /\ cap' = newCap
           /\ predictions' = addPrediction(predictions, c, tickModel[t])
           /\ AfterPromiseAll(t, newCap)
    /\ UNCHANGED << cameras, currentModels, systemErrors, phase, intervalSet,
                    ticksFired, now, tickModel >>
    /\ UNCHANGED notOrch

\* Ways the request of sendPrediction fails: fetch rejects, the status is
\* not ok (line 396), response.json() rejects.
InferenceFailures == {"transport", "status", "body"}

\* SendPredictionFail that appends a record although the request failed.
SendPredictionFailRecords(t, c, why) ==
    /\ cap[t][c].infer = "pending"
    /\ why \in InferenceFailures
    /\ LET newCap == [cap EXCEPT ![t][c].infer = "fail"]
       IN  /\ cap' = newCap
           /\ predictions' = addPrediction(predictions, c, tickModel[t])
           /\ AfterPromiseAll(t, newCap)
    /\ UNCHANGED << cameras, currentModels, systemErrors, phase,
                    intervalSet, ticksFired, now, tickModel >>
    /\ UNCHANGED notOrch

\* sendPrediction, lines 417-420: the catch logs and returns null.
SendPredictionFail(t, c, why) ==
    /\ cap[t][c].infer = "pending"
    /\ why \in InferenceFailures
    /\ LET newCap == [cap EXCEPT ![t][c].infer = "fail"]
       IN  /\ cap' = newCap
           /\ AfterPromiseAll(t, newCap)
    /\ UNCHANGED << cameras, currentModels, predictions, systemErrors, phase,
                    intervalSet, ticksFired, now, tickModel >>
    /\ UNCHANGED notOrch

\* Time passes by one timer period.  Timers fire when due, so the clock
\* does not pass a timer that is due; it stops once no timer is left.
Advance ==
    /\ phase = "running"
    /\ now < MaxTime
    /\ ~IntervalDue
    /\ \A t \in Ticks, c \in CamIds : ~TimeoutDue(cap[t][c])
    /\ \/ intervalSet /\ ticksFired < MaxTicks(Len(cameras))
       \/ \E t \in Ticks, c \in CamIds : cap[t][c].timer = "armed"
    /\ now' = now + PREDICTION_INTERVAL
    /\ UNCHANGED << cameras, currentModels, currentModelIndex, predictions,
                    systemErrors, phase, intervalSet, ticksFired, tickModel, cap,
                    completed >>
    /\ UNCHANGED notOrch

\* The callbacks of one capture/predict chain.
CameraStep(t, c) ==
    \/ CaptureData(t, c)
    \/ CaptureCloseOk(t, c)
    \/ \E code \in {0, 1} : CaptureCloseFail(t, c, code)
    \/ CaptureError(t, c)
    \/ CaptureTimeoutKill(t, c)
    \/ CaptureTimeoutSkip(t, c)
    \/ SendPredictionOk(t, c)
    \/ \E why \in InferenceFailures : SendPredictionFail(t, c, why)

Next ==
    \/ \E n \in 0 .. MaxCams, roster \in Rosters : Initialize(n, roster)
    \/ PredictionLoopNoop
    \/ PredictionLoopStart
    \/ \E t \in Ticks, c \in CamIds : CameraStep(t, c)
    \/ Advance

Spec == Init /\ [][Next]_vars

\* ------------------------------------------------- a server that has run
\* The state after WarmOk + WarmFailed earlier ticks, none overlapping the
\* next, with the clock re-based at the last of them.  In the first WarmOk
\* ticks camera 0 was captured and predicted; in the last WarmFailed ticks
\* its subprocess emitted data and exited non-zero (two error records each:
\* the 'close' handler's and the loop's).  The requests of the other
\* cameras failed throughout, which records nothing.

Min(a, b) == IF a < b THEN a ELSE b

\* predictions after k such ticks, newest first: the record of tick j
\* carries roster[(j - 1) % length], the model a tick that follows j - 1
\* completed ticks reads.
WarmPredictions(k, roster) ==
    [ i \in 1 .. Min(k, MAX_PREDICTIONS) |->
        [ cameraId |-> 0, model |-> roster[((k - i) % Len(roster)) + 1] ] ]

\* systemErrors after k such ticks, newest first.
WarmErrors(k) ==
    [ i \in 1 .. Min(2 * k, MAX_SYSTEM_ERRORS) |->
        [ cameraId |-> 0, error |-> IF i % 2 = 1 THEN "loop" ELSE "capture" ] ]

InitWarm ==
    /\ \E n \in 1 .. MaxCams, roster \in Rosters \ {<<>>} :
          /\ cameras = detectCameras(n)
          /\ currentModels = roster
          /\ currentModelIndex = (WarmOk + WarmFailed) % Len(roster)
          /\ predictions = WarmPredictions(WarmOk, roster)
    /\ systemErrors = WarmErrors(WarmFailed)
    /\ phase = "running"
    /\ intervalSet = TRUE
    /\ ticksFired = 0
    /\ now = 0
    /\ tickModel = [t \in Ticks |-> "none"]
    /\ cap = [t \in Ticks |-> [c \in CamIds |-> IdleCapture]]
    /\ completed = <<>>
    /\ NotOrchAtRest

NextWarm ==
    \/ PredictionLoopStart
    \/ \E t \in Ticks, c \in CamIds : CameraStep(t, c)
    \/ Advance

SpecWarm == InitWarm /\ [][NextWarm]_vars

\* ================================================================ claims

\* The map callback of call t for camera c returned in this step.
SettlesNow(t, c) == ~Settled(cap[t][c]) /\ Settled(cap[t][c])'

\* predictionLoop call t has been started and every one of its callbacks
\* has returned.
TickDone(t) == tickModel[t] # "none" /\ AllSettled(cap[t])

\* Some capture/predict chain of an earlier call is still outstanding.
SomeOutstanding == \E t \in Ticks, c \in CamIds : Outstanding(cap[t][c])

\* C1: when the interval timer fires while a camera operation of an earlier
\* tick is outstanding, the new tick is dropped: it starts no capture,
\* appends no record and leaves the cursor alone.
C1_OverlappingTickDropped ==
    [][ (ticksFired' # ticksFired /\ SomeOutstanding)
          => /\ cap' = cap
             /\ predictions' = predictions
             /\ systemErrors' = systemErrors
             /\ currentModelIndex' = currentModelIndex ]_vars

\* C2: a camera never has two capture subprocesses running, nor two
\* capture/predict cycles in flight.
C2_OneCyclePerCamera ==
    \A c \in CamIds :
        /\ Cardinality({t \in Ticks : cap[t][c].proc = "running"}) <= 1
        /\ Cardinality({t \in Ticks : Outstanding(cap[t][c])}) <= 1

\* C3: the step in which camera y's request succeeds appends y's record,
\* whatever the state of the other cameras of the tick, and the step in
\* which a camera fails removes no record.
C3_FaultIsolation ==
    [][ \A t \in Ticks, y \in CamIds :
          /\ (cap[t][y].infer = "pending" /\ cap'[t][y].infer = "ok")
                => /\ predictions' # predictions
                   /\ predictions'[1] = [cameraId |-> y, model |-> tickModel[t]]
                   /\ \A i \in 2 .. Len(predictions') : predictions'[i] = predictions[i - 1]
          /\ (SettlesNow(t, y) /\ cap'[t][y].infer # "ok")
                => predictions' = predictions ]_vars

\* C3 witness: camera 1's record is in the buffer while camera 0 of the same
\* tick has failed or has not settled yet.
C3_Witness ==
    \E t \in Ticks :
        /\ cap[t][1].infer = "ok"
        /\ cap[t][0].st \in {"pending", "rejected"}
        /\ Len(predictions) > 0
        /\ predictions[1].cameraId = 1

\* C4: the buffers never exceed their capacities.
C4_BufferCapacity ==
    /\ Len(predictions) <= MAX_PREDICTIONS
    /\ Len(systemErrors) <= MAX_SYSTEM_ERRORS

\* C4 witness: both buffers are full after a record was put into each.
C4_Witness ==
    /\ Len(predictions) = MAX_PREDICTIONS
    /\ Len(systemErrors) = MAX_SYSTEM_ERRORS
    /\ \E t \in Ticks, c \in CamIds : cap[t][c].infer = "ok"
    /\ \E t \in Ticks, c \in CamIds : cap[t][c].st = "rejected"

\* C5: with roster A, B, C the k-th completed tick used roster[(k-1) mod 3].
C5_RosterSequence ==
    currentModels = <<"A", "B", "C">>
        => \A k \in 1 .. Len(completed) :
              tickModel[completed[k]] = currentModels[((k - 1) % 3) + 1]

\* C6: the step that completes a tick advances the cursor by one modulo the
\* roster length, no other step changes it, and it stays 0 with one model.
C6_CursorAdvance ==
    [][ /\ (\E t \in Ticks : ~TickDone(t) /\ TickDone(t)')
            => currentModelIndex' = (currentModelIndex + 1) % Len(currentModels)
        /\ (\A t \in Ticks : TickDone(t)' = TickDone(t))
            => currentModelIndex' = currentModelIndex
        /\ Len(currentModels') = 1 => currentModelIndex' = 0 ]_vars

\* C6 witness: a tick in which no camera succeeded has completed and moved
\* the cursor from 0 to 1.
C6_Witness ==
    /\ currentModelIndex = 1
    /\ Len(completed) = 1
    /\ \A c \in CameraIds(cameras) : cap[completed[1]][c].infer # "ok"

\* C7: the step in which a capture fails by exit code, empty output or
\* spawn error puts an error record of that camera first in the buffer and
\* touches no prediction; the camera's request is never made afterwards.
C7_CaptureFailure ==
    [][ \A t \in Ticks, c \in CamIds :
          /\ (cap[t][c].st = "pending" /\ cap'[t][c].st = "rejected"
                /\ cap'[t][c].reason \in {"capture", "spawn"})
                => /\ systemErrors' # systemErrors
                   /\ systemErrors'[1].cameraId = c
                   /\ predictions' = predictions
          /\ cap[t][c].st = "rejected"
                => /\ cap'[t][c].st = "rejected"
                   /\ cap'[t][c].infer = "none"
                   /\ (cap'[t][c] # cap[t][c] => predictions' = predictions) ]_vars

\* C7 witness: a capture failed by its exit and one failed at spawn.
C7_Witness ==
    /\ \E t \in Ticks, c \in CamIds :
          cap[t][c].st = "rejected" /\ cap[t][c].reason = "capture"
    /\ \E t \in Ticks, c \in CamIds :
          cap[t][c].st = "rejected" /\ cap[t][c].reason = "spawn"
    /\ Len(systemErrors) > 0

\* C8: the step in which a camera's request fails puts an error record of
\* that camera first in the buffer and appends no prediction.
C8_InferenceFailure ==
    [][ \A t \in Ticks, c \in CamIds :
          (cap[t][c].infer = "pending" /\ cap'[t][c].infer = "fail")
             => /\ systemErrors' # systemErrors
                /\ systemErrors'[1].cameraId = c
                /\ predictions' = predictions ]_vars

\* C9: when the 10 s timer fires with the subprocess still running, the
\* subprocess is signalled and the attempt is rejected with the timeout
\* error, with or without output so far.
C9_HardTimeout ==
    [][ \A t \in Ticks, c \in CamIds :
          (cap[t][c].timer = "armed" /\ cap'[t][c].timer = "fired"
             /\ cap[t][c].proc = "running")
             => /\ cap'[t][c].killed
                /\ cap'[t][c].st = "rejected"
                /\ cap'[t][c].reason = "timeout" ]_vars

\* C10: a capture resolves only at an exit with code 0 and a non-empty
\* buffer; any other exit rejects a pending capture with the capture error.
C10_CaptureResult ==
    [][ \A t \in Ticks, c \in CamIds :
          /\ (cap[t][c].st # "resolved" /\ cap'[t][c].st = "resolved")
                => /\ cap'[t][c].proc = "closed"
                   /\ cap'[t][c].code = 0
                   /\ cap'[t][c].hasData
          /\ (cap[t][c].st = "pending" /\ cap[t][c].proc # "closed"
                /\ cap'[t][c].proc = "closed"
                /\ ~(cap'[t][c].code = 0 /\ cap'[t][c].hasData))
                => /\ cap'[t][c].st = "rejected"
                   /\ cap'[t][c].reason = "capture" ]_vars

\* C10 witness: one capture resolved, another exited with code 0 and an
\* empty buffer and was rejected.
C10_Witness ==
    /\ \E t \in Ticks, c \in CamIds : cap[t][c].st = "resolved"
    /\ \E t \in Ticks, c \in CamIds :
          /\ cap[t][c].proc = "closed"
          /\ cap[t][c].code = 0
          /\ ~cap[t][c].hasData
          /\ cap[t][c].st = "rejected"
          /\ cap[t][c].reason = "capture"

\* C11: a tick whose continuation has run has every camera settled, and the
\* cursor has been advanced once per such tick and not otherwise.
C11_AdvanceAfterAllSettled ==
    /\ \A k \in 1 .. Len(completed) :
          \A c \in CameraIds(cameras) : Settled(cap[completed[k]][c])
    /\ Len(currentModels) > 0
          => currentModelIndex = Len(completed) % Len(currentModels)

\* C11 witness: a tick of two cameras has completed, one camera having
\* failed and the other having been predicted.
C11_Witness ==
    /\ Len(cameras) = 2
    /\ completed = <<1>>
    /\ cap[1][0].st = "rejected"
    /\ cap[1][1].infer = "ok"
    /\ currentModelIndex = 1

\* C12: with no camera or no model, no tick ever starts a capture, makes a
\* request, appends a record or moves the cursor.
C12_EmptyTickNoop ==
    (phase = "running" /\ (Len(cameras) = 0 \/ Len(currentModels) = 0))
        => /\ predictions = <<>>
           /\ systemErrors = <<>>
           /\ currentModelIndex = 0
           /\ completed = <<>>
           /\ \A t \in Ticks :
                 /\ tickModel[t] = "none"
                 /\ \A c \in CamIds : cap[t][c] = IdleCapture

\* C12 witness: the timer has fired with cameras but an empty roster.
C12_Witness ==
    /\ Len(cameras) > 0
    /\ Len(currentModels) = 0
    /\ ticksFired > 0

\* ======================================================= stream server
\* src/unnamed/part_002

\* The variables of the orchestrator are not in use.
OrchAtRest ==
    /\ cameras = <<>>
    /\ currentModels = <<>>
    /\ currentModelIndex = 0
    /\ predictions = <<>>
    /\ systemErrors = <<>>
    /\ phase = "boot"
    /\ intervalSet = FALSE
    /\ ticksFired = 0
    /\ now = 0
    /\ tickModel = [t \in Ticks |-> "none"]
    /\ cap = [t \in Ticks |-> [c \in CamIds |-> IdleCapture]]
    /\ completed = <<>>

\* ------------------------------------------------ resolution negotiation
MaxTokens == 3          \* WIDTHxHEIGHT tokens in one probe output

MAX_WIDTH       == 1920     \* r.width <= 1920
MAX_HEIGHT      == 1080     \* r.height <= 1080
FALLBACK_WIDTH  == 1280     \* '1280x720'
FALLBACK_HEIGHT == 720

\* A resolution string 'WxH' is the pair of its numbers.
FallbackResolution == << FALLBACK_WIDTH, FALLBACK_HEIGHT >>

\* Resolutions a probe may report, all of 3 or 4 digits a side.
ProbeResolutions ==
    { <<640, 480>>, <<1280, 720>>, <<1920, 1080>>, <<1920, 1200>>, <<3840, 2160>> }

\* A probe output is the sequence of its WIDTHxHEIGHT tokens.  discrete: the
\* token follows the text "Size: Discrete "; brk: a line break separates it
\* from the token before.
ProbeTokens == [ res : ProbeResolutions, discrete : BOOLEAN, brk : BOOLEAN ]
ProbeOutputs == UNION { [1 .. n -> ProbeTokens] : n \in 0 .. MaxTokens }

\* Tokens j < i stand on one line.
SameLine(out, j, i) == \A k \in (j + 1) .. i : ~out[k].brk

\* Lines 31-56: is token i matched?  Windows: every match of the global
\* pattern on every line.  Otherwise: per line the first match of
\* /Size: Discrete (\d{3,4}x\d{3,4})/.
ExtractedToken(out, platform, i) ==
    IF platform = "win32" THEN TRUE
    ELSE /\ out[i].discrete
         /\ \A j \in 1 .. (i - 1) : ~(out[j].discrete /\ SameLine(out, j, i))

\* Lines 38-40, 51-53: a match is pushed unless resolutions includes it.
ParseResolutions(out, platform) ==
    LET pushed(i) ==
            /\ ExtractedToken(out, platform, i)
            /\ \A j \in 1 .. (i - 1) :
                  ExtractedToken(out, platform, j) => out[j].res # out[i].res
        idx == SelectSeq([i \in 1 .. Len(out) |-> i], pushed)
    IN  [ k \in 1 .. Len(idx) |-> out[idx[k]].res ]

Pixels(r) == r[1] * r[2]

\* Lines 59-64: .sort((a, b) => b.pixels - a.pixels), a stable sort.
RECURSIVE SortByPixels(_)
SortByPixels(list) ==
    IF list = <<>> THEN <<>>
    ELSE LET init == SortByPixels(SubSeq(list, 1, Len(list) - 1))
             r    == list[Len(list)]
             k    == Cardinality({ i \in 1 .. Len(init) : Pixels(init[i]) >= Pixels(r) })
         IN  SubSeq(init, 1, k) \o <<r>> \o SubSeq(init, k + 1, Len(init))

\* Line 67: r.width <= 1920 && r.height <= 1080
FitsLimit(r) == r[1] <= MAX_WIDTH /\ r[2] <= MAX_HEIGHT

\* FindResolution taking the largest resolution without the test of the limit.
FindResolutionLargest(sorted) ==
    IF sorted = <<>> THEN FallbackResolution ELSE sorted[1]

\* Lines 67-68: find, or the fallback.
FindResolution(sorted) ==
    LET fit == SelectSeq(sorted, FitsLimit)
    IN  IF fit = <<>> THEN FallbackResolution ELSE fit[1]

\* The 'close' handler of detectCameraResolution, lines 27-72.
selectResolution(out, platform) ==
    FindResolution(SortByPixels(ParseResolutions(out, platform)))

InitNegotiate ==
    /\ OrchAtRest
    /\ DetAtRest
    /\ StrAtRest
    /\ nPlatform \in {"linux", "win32"}
    /\ nOutput \in ProbeOutputs
    /\ nSelected = "none"

Negotiate ==
    /\ nSelected = "none"
    /\ nPlatform # "none"
    /\ nSelected' = selectResolution(nOutput, nPlatform)
    /\ UNCHANGED << nPlatform, nOutput >>
    /\ UNCHANGED notNeg

NextNegotiate == Negotiate

SpecNegotiate == InitNegotiate /\ [][NextNegotiate]_vars

\* The resolutions among all tokens of the output that fit the limit.
FittingTokens(out) == { r \in { out[i].res : i \in DOMAIN out } : FitsLimit(r) }

\* C15: the resolution negotiated is a token of the output that fits
\* 1920x1080 and has the most pixels of all that fit, or the fallback when
\* none fits; on every platform, wherever the tokens stand.
C15_HighestFittingToken ==
    nSelected # "none"
        => IF FittingTokens(nOutput) = {}
           THEN nSelected = FallbackResolution
           ELSE /\ nSelected \in FittingTokens(nOutput)
                /\ \A r \in FittingTokens(nOutput) : Pixels(r) <= Pixels(nSelected)

\* ------------------------------------------------------ camera detection
\* detectCameras of src/src/components/PredictionLog.tsx ("api") and of
\* src/unnamed/part_002 ("streams"), with the probes the latter awaits.

PROBE_TIMEOUT    == 5000    \* setTimeout(..., 5000) of detectCameraResolution
CAMERA_BASE_PORT == 20000   \* port: 20000 + i
CAMERA_FPS       == 5       \* fps: 5

MaxDetTime == PROBE_TIMEOUT * (MaxDevices + 1)

\* What the platform lists: the entries of /dev, or the lines the dshow
\* listing prints.  video: the name starts with 'video', or the line matches
\* /\] "([^"]+)" \(video\)/.
ListEntries ==
    { [ name |-> i, video |-> TRUE ] : i \in DeviceIds }
        \cup { [ name |-> MaxDevices, video |-> FALSE ] }

\* Listings name each entry at most once, in any order.
Listings ==
    { l \in UNION { [1 .. n -> ListEntries] : n \in 0 .. (MaxDevices + 1) } :
        \A i, j \in DOMAIN l : i # j => l[i] # l[j] }

\* .filter(startsWith('video')).map(...).filter(existsSync), and the loop
\* over the lines of the dshow listing.
cameraDevices(listing, exists) ==
    LET kept == SelectSeq(listing, LAMBDA e : e.video /\ e \in exists)
    IN  [ k \in 1 .. Len(kept) |-> kept[k].name ]

\* CameraEntry giving every camera the base port.
CameraEntrySamePort(program, i, device, resolution) ==
    IF program = "api"
    THEN [ id |-> i, device |-> device, port |-> STREAM_BASE_PORT ]
    ELSE [ id |-> i, device |-> device, port |-> CAMERA_BASE_PORT,
           resolution |-> resolution, fps |-> CAMERA_FPS ]

\* The object pushed to detectedCameras; port is streamPort in the api.
CameraEntry(program, i, device, resolution) ==
    IF program = "api"
    THEN [ id |-> i, device |-> device, port |-> STREAM_BASE_PORT + i ]
    ELSE [ id |-> i, device |-> device, port |-> CAMERA_BASE_PORT + i,
           resolution |-> resolution, fps |-> CAMERA_FPS ]

\* The api pushes one camera per device and awaits nothing.
CamerasOf(program, devices) ==
    [ k \in 1 .. Len(devices) |-> CameraEntry(program, k - 1, devices[k], "none") ]

UsesReaddir(program, platform) ==
    IF program = "api" THEN platform = "linux" ELSE platform # "win32"

UsesListTool(program, platform) == platform = "win32"

\* Outputs a probe may have written when it closes.
ProbeLine(r) == [ res |-> r, discrete |-> TRUE, brk |-> TRUE ]
DetectOutputs ==
    { <<>>,
      << ProbeLine(<<1920, 1080>>) >>,
      << ProbeLine(<<3840, 2160>>), ProbeLine(<<640, 480>>) >> }

\* spawn and setTimeout of detectCameraResolution, lines 20 and 80.
LaunchedProbe(at) ==
    [ IdleProbe EXCEPT !.st = "pending", !.proc = "running", !.timer = "armed",
                       !.launched = at ]

\* ResolveProbe in which a later resolve replaces the value.
ResolveProbeLastWins(p, v, why) ==
    [ p EXCEPT !.st = "resolved", !.value = v, !.by = why ]

\* resolve(v): settles a pending promise, does nothing to a settled one.
ResolveProbe(p, v, why) ==
    IF p.st = "pending"
    THEN [ p EXCEPT !.st = "resolved", !.value = v, !.by = why ]
    ELSE p

\* The timer callback killing the subprocess without resolving.
ProbeTimedOutKillOnly(p) ==
    [ p EXCEPT !.timer = "fired", !.killed = (p.proc = "running") \/ p.killed ]

\* Lines 80-84: kill, then resolve('1280x720').
ProbeTimedOut(p) ==
    ResolveProbe([ p EXCEPT !.timer = "fired",
                            !.killed = (p.proc = "running") \/ p.killed ],
                 FallbackResolution, "timeout")

\* Lines 74-77: resolve('1280x720').
ProbeErrored(p) ==
    ResolveProbe([ p EXCEPT !.proc = "failed" ], FallbackResolution, "error")

\* Lines 27-72.
ProbeClosed(p, out, platform) ==
    ResolveProbe([ p EXCEPT !.proc = "exited" ], selectResolution(out, platform), "close")

InitDetect ==
    /\ OrchAtRest
    /\ NegAtRest
    /\ StrAtRest
    /\ dProgram \in {"api", "streams"}
    /\ dPlatform \in {"linux", "win32", "darwin"}
    /\ dPhase = "start"
    /\ dTool = "none"
    /\ dDevices = <<>>
    /\ dDetected = <<>>
    /\ dError = "none"
    /\ dProbes = [i \in DeviceIds |-> IdleProbe]
    /\ dNow = 0

\* The device list is known: the api returns its cameras, the stream server
\* awaits the probe of the first device.
DevicesKnown(devices) ==
    /\ dDevices' = devices
    /\ IF dProgram = "api" \/ devices = <<>>
       THEN /\ dDetected' = CamerasOf(dProgram, devices)
            /\ dPhase' = "done"
            /\ UNCHANGED dProbes
       ELSE /\ dDetected' = <<>>
            /\ dPhase' = "probing"
            /\ dProbes' = [ dProbes EXCEPT ![0] = LaunchedProbe(dNow) ]

\* readdir('/dev') fulfils.
ReaddirOk ==
    /\ dPhase = "start"
    /\ UsesReaddir(dProgram, dPlatform)
    /\ \E listing \in Listings :
         \E exists \in SUBSET { listing[i] : i \in DOMAIN listing } :
            DevicesKnown(cameraDevices(listing, exists))
    /\ UNCHANGED << dProgram, dPlatform, dTool, dError, dNow >>
    /\ UNCHANGED notDet

\* readdir('/dev') rejects: the catch logs, detectedCameras is returned empty.
ReaddirFail ==
    /\ dPhase = "start"
    /\ UsesReaddir(dProgram, dPlatform)
    /\ dError' = "readdir"
    /\ dPhase' = "done"
    /\ dDetected' = <<>>
    /\ UNCHANGED << dProgram, dPlatform, dTool, dDevices, dProbes, dNow >>
    /\ UNCHANGED notDet

\* The api on a platform that is neither linux nor win32.
NoEnumeration ==
    /\ dPhase = "start"
    /\ ~UsesReaddir(dProgram, dPlatform)
    /\ ~UsesListTool(dProgram, dPlatform)
    /\ dPhase' = "done"
    /\ dDetected' = <<>>
    /\ UNCHANGED << dProgram, dPlatform, dTool, dDevices, dError, dProbes, dNow >>
    /\ UNCHANGED notDet

\* spawn('ffmpeg', ['-list_devices', ...]); the promise is returned pending.
SpawnListTool ==
    /\ dPhase = "start"
    /\ ~UsesReaddir(dProgram, dPlatform)
    /\ UsesListTool(dProgram, dPlatform)
    /\ dTool' = "running"
    /\ dPhase' = "listing"
    /\ UNCHANGED << dProgram, dPlatform, dDevices, dDetected, dError, dProbes, dNow >>
    /\ UNCHANGED notDet

\* 'close' of the listing subprocess, whatever its exit code.
ListToolClose ==
    /\ dPhase = "listing"
    /\ dTool = "running"
    /\ dTool' = "closed"
    /\ \E listing \in Listings :
         DevicesKnown(cameraDevices(listing, { listing[i] : i \in DOMAIN listing }))
    /\ UNCHANGED << dProgram, dPlatform, dError, dNow >>
    /\ UNCHANGED notDet

\* 'error' of the listing subprocess (ffmpeg cannot be launched).  No
\* listener is attached: the event is thrown and ends the process.
ListToolError ==
    /\ dPhase = "listing"
    /\ dTool = "running"
    /\ dTool' = "failed"
    /\ dError' = "spawn"
    /\ dPhase' = "crashed"
    /\ UNCHANGED << dProgram, dPlatform, dDevices, dDetected, dProbes, dNow >>
    /\ UNCHANGED notDet

\* An event of probe i has turned its closure into p.  If that resolved the
\* promise, the loop pushes the camera and awaits the next probe or returns.
ProbeEvent(i, p) ==
    /\ IF dProbes[i].st = "pending" /\ p.st = "resolved"
       THEN /\ dDetected' = Append(dDetected,
                                   CameraEntry(dProgram, i, dDevices[i + 1], p.value))
            /\ IF i + 1 < Len(dDevices)
               THEN /\ dProbes' = [ dProbes EXCEPT ![i] = p,
                                                   ![i + 1] = LaunchedProbe(dNow) ]
                    /\ UNCHANGED dPhase
               ELSE /\ dProbes' = [ dProbes EXCEPT ![i] = p ]
                    /\ dPhase' = "done"
       ELSE /\ dProbes' = [ dProbes EXCEPT ![i] = p ]
            /\ UNCHANGED << dDetected, dPhase >>
    /\ UNCHANGED << dProgram, dPlatform, dTool, dDevices, dError, dNow >>
    /\ UNCHANGED notDet

\* 'close' of the probe subprocess; it also follows a failed launch.
ProbeClose(i) ==
    /\ dProbes[i].proc \in {"running", "failed"}
    /\ \E out \in DetectOutputs : ProbeEvent(i, ProbeClosed(dProbes[i], out, dPlatform))

ProbeError(i) ==
    /\ dProbes[i].proc = "running"
    /\ ProbeEvent(i, ProbeErrored(dProbes[i]))

ProbeTimerDue(i) ==
    dProbes[i].timer = "armed" /\ dNow >= dProbes[i].launched + PROBE_TIMEOUT

ProbeTimeout(i) ==
    /\ ProbeTimerDue(i)
    /\ ProbeEvent(i, ProbeTimedOut(dProbes[i]))

\* Time passes, unless a timer is due.
DetAdvance ==
    /\ dPhase \in {"probing", "done"}
    /\ dProgram = "streams"
    /\ \A i \in DeviceIds : ~ProbeTimerDue(i)
    /\ dNow + PROBE_TIMEOUT <= MaxDetTime
    /\ dNow' = dNow + PROBE_TIMEOUT
    /\ UNCHANGED << dProgram, dPlatform, dPhase, dTool, dDevices, dDetected, dError, dProbes >>
    /\ UNCHANGED notDet

NextDetect ==
    \/ ReaddirOk
    \/ ReaddirFail
    \/ NoEnumeration
    \/ SpawnListTool
    \/ ListToolClose
    \/ ListToolError
    \/ \E i \in DeviceIds : ProbeClose(i)
    \/ \E i \in DeviceIds : ProbeError(i)
    \/ \E i \in DeviceIds : ProbeTimeout(i)
    \/ DetAdvance

SpecDetect == InitDetect /\ [][NextDetect]_vars

\* C13: the cameras detected so far have the ids 0, 1, ... in the order of
\* the enumeration, each on the port base + id, and no two on one port.
C13_IdsAndPorts ==
    /\ Len(dDetected) <= Len(dDevices)
    /\ \A k \in DOMAIN dDetected :
          /\ dDetected[k].id = k - 1
          /\ dDetected[k].device = dDevices[k]
          /\ dDetected[k].port =
                (IF dProgram = "api" THEN STREAM_BASE_PORT ELSE CAMERA_BASE_PORT)
                    + dDetected[k].id
    /\ \A j, k \in DOMAIN dDetected : j # k => dDetected[j].port # dDetected[k].port
    /\ dPhase = "done" => Len(dDetected) = Len(dDevices)

C13_Witness ==
    /\ dPhase = "done"
    /\ dProgram = "streams"
    /\ Len(dDetected) = 2
    /\ dDevices = <<1, 0>>

\* C14: after an error of the enumeration, detection has returned the empty
\* list and the process is alive.
C14_FailSoft ==
    dError # "none" => dPhase = "done" /\ dDetected = <<>>

\* C16: a probe whose timer has fired or whose subprocess has failed is
\* resolved; resolved by the timer or by the error its value is 1280x720;
\* no probe is pending later than PROBE_TIMEOUT after its launch, and a
\* resolved probe has a resolution that its camera carries.
C16_ProbeFallback ==
    \A i \in DeviceIds :
        LET p == dProbes[i] IN
        /\ p.timer = "fired" \/ p.proc = "failed" => p.st = "resolved"
        /\ p.by \in {"timeout", "error"} => p.value = FallbackResolution
        /\ p.st = "pending" => dNow <= p.launched + PROBE_TIMEOUT
        /\ p.st = "resolved" =>
              /\ p.value \in ProbeResolutions
              /\ dDetected[i + 1].resolution = p.value

C16_Witness ==
    /\ dPhase = "done"
    /\ dProbes[0].by = "timeout"
    /\ dProbes[1].by = "error"
    /\ dDetected[1].resolution = FallbackResolution
    /\ dDetected[2].resolution = FallbackResolution

\* -------------------------------------------------------- MJPEG streams
\* main and startCameraStream of src/unnamed/part_002.

MaxStreams == 1         \* cameras that main starts
MaxViewers == 2         \* /stream connections accepted in all
MaxChunks  == 2         \* writes of all subprocesses to their stdout
MaxLoad    == 4         \* connections and writes together

\* The processes, servers and subprocess list as startCameraStream leaves
\* them: spawn, ffmpegProcesses.push, createServer, listen, httpServers.push.
startCameraStream(st, camera) ==
    LET k == Len(st.procs) + 1 IN
    [ procs   |-> Append(st.procs, [ cam |-> camera.id, st |-> "running",
                                     pipe |-> 0, chunks |-> <<>>,
                                     signal |-> "none" ]),
      list    |-> Append(st.list, k),
      servers |-> Append(st.servers, [ proc |-> k, port |-> camera.port,
                                       closed |-> FALSE ]) ]

\* StartAll starting every camera a second time.
RECURSIVE StartAllTwice(_, _)
StartAllTwice(st, cams) ==
    IF cams = <<>> THEN st
    ELSE StartAllTwice(startCameraStream(startCameraStream(st, Head(cams)), Head(cams)),
                       Tail(cams))

\* cameras.forEach(camera => startCameraStream(camera))
RECURSIVE StartAll(_, _)
StartAll(st, cams) ==
    IF cams = <<>> THEN st
    ELSE StartAll(startCameraStream(st, Head(cams)), Tail(cams))

\* ffmpegProcesses.splice(ffmpegProcesses.indexOf(ffmpeg), 1)
Splice(list, k) == SelectSeq(list, LAMBDA x : x # k)

\* The 'close' handler starting the camera's stream anew.
StreamClosedRestart(st, k) ==
    startCameraStream([ st EXCEPT !.procs[k].st = "closed", !.list = Splice(st.list, k) ],
                      [ id |-> st.procs[k].cam, port |-> st.servers[k].port ])

\* Lines 252-258: the 'close' handler drops the subprocess from the list.
StreamClosed(st, k) ==
    [ st EXCEPT !.procs[k].st = "closed", !.list = Splice(st.list, k) ]

\* Lines 198-205: res.writeHead(200, {...}).
StreamHead ==
    [ status |-> 200,
      contentType |-> "multipart/x-mixed-replace; boundary=--mjpegboundary" ]

\* Frame writing the bytes before their headers, with no length.
FrameDataFirst(chunk) ==
    << [ part |-> "data", seq |-> chunk.seq, len |-> chunk.len ],
       [ part |-> "boundary", seq |-> 0, len |-> 0 ],
       [ part |-> "content-type", seq |-> 0, len |-> 0 ],
       [ part |-> "content-length", seq |-> 0, len |-> 0 ] >>

\* Lines 210-213: the four writes for one chunk.
Frame(chunk) ==
    << [ part |-> "boundary", seq |-> 0, len |-> 0 ],
       [ part |-> "content-type", seq |-> 0, len |-> 0 ],
       [ part |-> "content-length", seq |-> 0, len |-> chunk.len ],
       [ part |-> "data", seq |-> chunk.seq, len |-> chunk.len ] >>

RECURSIVE Frames(_)
Frames(chunks) ==
    IF chunks = <<>> THEN <<>> ELSE Frame(Head(chunks)) \o Frames(Tail(chunks))

\* Deliver stopping at a viewer whose socket buffer is full.
DeliverUntilSlow(vs, k, chunk) ==
    [ i \in DOMAIN vs |->
        IF /\ vs[i].proc = k
           /\ vs[i].open
           /\ \A j \in 1 .. (i - 1) : ~(vs[j].proc = k /\ vs[j].open /\ vs[j].slow)
        THEN [ vs[i] EXCEPT !.recv = @ \o Frame(chunk) ]
        ELSE IF vs[i].proc = k /\ ~vs[i].open
        THEN [ vs[i] EXCEPT !.lost = @ + 1 ]
        ELSE vs[i] ]

\* One 'data' event of subprocess k: every listener attached to its stdout
\* runs, in the order of attachment.  res.write queues the bytes whether or
\* not the socket is writable; on a response that has ended the write fails:
\* the bytes are dropped and the error goes to the absent callback (lost
\* counts the chunks so refused).
Deliver(vs, k, chunk) ==
    [ i \in DOMAIN vs |->
        IF vs[i].proc # k THEN vs[i]
        ELSE IF vs[i].open
        THEN [ vs[i] EXCEPT !.recv = @ \o Frame(chunk) ]
        ELSE [ vs[i] EXCEPT !.lost = @ + 1 ] ]

\* EndResponse ending the response of every viewer of the camera.
EndAllResponses(vs, v) ==
    [ i \in DOMAIN vs |->
        IF vs[i].proc = vs[v].proc THEN [ vs[i] EXCEPT !.open = FALSE ] ELSE vs[i] ]

\* res.end() of the connection's own response.
EndResponse(vs, v) == [ vs EXCEPT ![v].open = FALSE ]

\* What all subprocesses have written so far.
RECURSIVE Written(_)
Written(procs) ==
    IF procs = <<>> THEN 0
    ELSE LET p == Head(procs)
             read == Cardinality(DOMAIN p.chunks)
         IN  p.pipe + (IF read = 0 THEN 0 ELSE p.chunks[read].upto) + Written(Tail(procs))

InitStream ==
    /\ OrchAtRest
    /\ NegAtRest
    /\ DetAtRest
    /\ sPhase = "detected"
    /\ \E n \in 0 .. MaxStreams :
          sCameras = [ k \in 1 .. n |-> CameraEntry("streams", k - 1, k - 1, FallbackResolution) ]
    /\ sProcs = <<>>
    /\ ffmpegProcesses = <<>>
    /\ httpServers = <<>>
    /\ viewers = <<>>

StreamState == [ procs |-> sProcs, list |-> ffmpegProcesses, servers |-> httpServers ]

SetStreamState(st) ==
    /\ sProcs' = st.procs
    /\ ffmpegProcesses' = st.list
    /\ httpServers' = st.servers

\* main, after detectCameras has returned.
Main ==
    /\ sPhase = "detected"
    /\ sPhase' = "streaming"
    /\ SetStreamState(StartAll(StreamState, sCameras))
    /\ UNCHANGED << sCameras, viewers >>
    /\ UNCHANGED notStr

\* The subprocess writes to its stdout pipe.
Produce(k) ==
    /\ sPhase = "streaming"
    /\ sProcs[k].st = "running"
    /\ Written(sProcs) < MaxChunks
    /\ Len(viewers) + Written(sProcs) < MaxLoad
    /\ sProcs' = [ sProcs EXCEPT ![k].pipe = @ + 1 ]
    /\ UNCHANGED << sPhase, sCameras, ffmpegProcesses, httpServers, viewers >>
    /\ UNCHANGED notStr

HasListener(k) == \E i \in DOMAIN viewers : viewers[i].proc = k

\* 'data' of ffmpeg.stdout: what the pipe holds is read as one chunk.  The
\* stream flows once a listener is attached, and from the exit of the
\* subprocess on.
StdoutData(k) ==
    /\ sPhase = "streaming"
    /\ sProcs[k].st \in {"running", "exited"}
    /\ sProcs[k].pipe > 0
    /\ HasListener(k) \/ sProcs[k].st = "exited"
    /\ LET n     == Len(sProcs[k].chunks)
           upto  == (IF n = 0 THEN 0 ELSE sProcs[k].chunks[n].upto) + sProcs[k].pipe
           chunk == [ seq |-> n + 1, len |-> sProcs[k].pipe, upto |-> upto ]
       IN  /\ sProcs' = [ sProcs EXCEPT ![k].pipe = 0, ![k].chunks = Append(@, chunk) ]
           /\ viewers' = Deliver(viewers, k, chunk)
    /\ UNCHANGED << sPhase, sCameras, ffmpegProcesses, httpServers >>
    /\ UNCHANGED notStr

\* The subprocess exits; no 'exit' listener is attached.
StreamExit(k) ==
    /\ sPhase = "streaming"
    /\ sProcs[k].st = "running"
    /\ sProcs' = [ sProcs EXCEPT ![k].st = "exited" ]
    /\ UNCHANGED << sPhase, sCameras, ffmpegProcesses, httpServers, viewers >>
    /\ UNCHANGED notStr

\* Lines 260-262: 'error', the subprocess could not be launched.
StreamError(k) ==
    /\ sPhase = "streaming"
    /\ sProcs[k].st = "running"
    /\ sProcs[k].pipe = 0
    /\ sProcs[k].chunks = <<>>
    /\ sProcs' = [ sProcs EXCEPT ![k].st = "failed" ]
    /\ UNCHANGED << sPhase, sCameras, ffmpegProcesses, httpServers, viewers >>
    /\ UNCHANGED notStr

\* 'close': the subprocess has ended and its stdout has been read to the end.
StreamClose(k) ==
    /\ sPhase = "streaming"
    /\ sProcs[k].st \in {"exited", "failed"}
    /\ sProcs[k].pipe = 0
    /\ SetStreamState(StreamClosed(StreamState, k))
    /\ UNCHANGED << sPhase, sCameras, viewers >>
    /\ UNCHANGED notStr

\* Lines 196-225: GET /stream on server k.  since: the 'data' events of the
\* subprocess before this listener was attached.
Connect(k, slow) ==
    /\ sPhase = "streaming"
    /\ Len(viewers) < MaxViewers
    /\ Len(viewers) + Written(sProcs) < MaxLoad
    /\ LET p == httpServers[k].proc IN
       viewers' = Append(viewers, [ proc |-> p, open |-> TRUE, slow |-> slow,
                                    head |-> << StreamHead >>, recv |-> <<>>,
                                    lost |-> 0, since |-> Len(sProcs[p].chunks) ])
    /\ UNCHANGED << sPhase, sCameras, sProcs, ffmpegProcesses, httpServers >>
    /\ UNCHANGED notStr

\* Lines 219-225: 'close' or 'error' of the request.
Disconnect(v) ==
    /\ sPhase = "streaming"
    /\ viewers[v].open
    /\ viewers' = EndResponse(viewers, v)
    /\ UNCHANGED << sPhase, sCameras, sProcs, ffmpegProcesses, httpServers >>
    /\ UNCHANGED notStr

\* killAll leaving the servers open once a kill has thrown.
closeAllUnlessThrown(servers, threw) ==
    [ i \in DOMAIN servers |-> [ servers[i] EXCEPT !.closed = (threw = {}) ] ]

\* Lines 287-293: process.kill('SIGTERM') for each subprocess of the list,
\* each in its own try/catch; threw: the subprocesses whose kill throws.
killAll(procs, list, threw) ==
    [ k \in DOMAIN procs |->
        IF \E i \in DOMAIN list : list[i] = k
        THEN [ procs[k] EXCEPT !.signal = IF k \in threw THEN "threw" ELSE "SIGTERM" ]
        ELSE procs[k] ]

\* Lines 295-301: server.close() for each server, each in its own try/catch.
closeAll(servers, threw) ==
    [ i \in DOMAIN servers |-> [ servers[i] EXCEPT !.closed = TRUE ] ]

\* Lines 284-307: cleanup, on SIGINT or SIGTERM; it ends in process.exit(0),
\* and the connections go with the process.
Cleanup ==
    /\ sPhase \in {"detected", "streaming"}
    /\ sPhase' = "exited"
    /\ \E threw \in SUBSET { ffmpegProcesses[i] : i \in DOMAIN ffmpegProcesses } :
          /\ sProcs' = killAll(sProcs, ffmpegProcesses, threw)
          /\ httpServers' = closeAll(httpServers, threw)
    /\ viewers' = <<>>
    /\ UNCHANGED << sCameras, ffmpegProcesses >>
    /\ UNCHANGED notStr

NextStream ==
    \/ Main
    \/ Cleanup
    \/ \E k \in DOMAIN sProcs : Produce(k)
    \/ \E k \in DOMAIN sProcs : StdoutData(k)
    \/ \E k \in DOMAIN sProcs : StreamExit(k)
    \/ \E k \in DOMAIN sProcs : StreamError(k)
    \/ \E k \in DOMAIN sProcs : StreamClose(k)
    \/ \E k \in DOMAIN httpServers : \E slow \in BOOLEAN : Connect(k, slow)
    \/ \E v \in DOMAIN viewers : Disconnect(v)

SpecStream == InitStream /\ [][NextStream]_vars

\* C17: no camera ever has more than one continuous-capture subprocess
\* spawned for it; once main has run every camera has exactly one, and the
\* subprocess list names no subprocess twice.
C17_OneSubprocessPerCamera ==
    /\ \A j, k \in DOMAIN sProcs : j # k => sProcs[j].cam # sProcs[k].cam
    /\ \A i, j \in DOMAIN ffmpegProcesses :
          i # j => ffmpegProcesses[i] # ffmpegProcesses[j]
    /\ \A i \in DOMAIN ffmpegProcesses : ffmpegProcesses[i] \in DOMAIN sProcs
    /\ sPhase = "streaming" =>
          \A c \in DOMAIN sCameras :
             \E k \in DOMAIN sProcs : sProcs[k].cam = sCameras[c].id

C17_Witness ==
    /\ sPhase = "streaming"
    /\ Len(sCameras) = MaxStreams
    /\ Len(sProcs) = Len(sCameras)
    /\ sProcs[1].st = "closed"
    /\ sProcs[1].chunks # <<>>
    /\ \A i \in DOMAIN ffmpegProcesses : ffmpegProcesses[i] # 1
    /\ Len(viewers) = MaxViewers

\* C18: in every step, a subprocess whose 'close' has been handled is the
\* only subprocess there is for its camera, and if it was closed before the
\* step no viewer of it has received anything more in the step.
C18_Step ==
    \A k \in DOMAIN sProcs' :
        sProcs'[k].st = "closed" =>
            /\ \A j \in DOMAIN sProcs' : j # k => sProcs'[j].cam # sProcs'[k].cam
            /\ (k \in DOMAIN sProcs /\ sProcs[k].st = "closed") =>
                  /\ sProcs'[k] = sProcs[k]
                  /\ \A v \in DOMAIN viewers' :
                        viewers'[v].proc = k =>
                           viewers'[v].recv =
                              (IF v \in DOMAIN viewers THEN viewers[v].recv ELSE <<>>)

Suffix(seq, n) == SubSeq(seq, Len(seq) - n + 1, Len(seq))

\* C19: an open viewer has received, framed and in order, every chunk read
\* since it connected, slow or not; of two open viewers of one camera the
\* later has received exactly what the earlier has received since.
C19_SameSequence ==
    \A v, w \in DOMAIN viewers :
        (/\ viewers[v].open /\ viewers[w].open
         /\ viewers[v].proc = viewers[w].proc
         /\ viewers[v].since <= viewers[w].since)
        => LET chunks == sProcs[viewers[w].proc].chunks IN
           /\ viewers[w].recv = Frames(SubSeq(chunks, viewers[w].since + 1, Len(chunks)))
           /\ Len(viewers[w].recv) <= Len(viewers[v].recv)
           /\ viewers[w].recv = Suffix(viewers[v].recv, Len(viewers[w].recv))

C19_Witness ==
    /\ Len(viewers) = 2
    /\ viewers[1].open /\ viewers[2].open
    /\ viewers[1].proc = viewers[2].proc
    /\ viewers[1].slow /\ ~viewers[2].slow
    /\ viewers[1].since = 0 /\ viewers[2].since = 1
    /\ Len(viewers[1].recv) = 8
    /\ Len(viewers[2].recv) = 4

\* C20: a step in which a viewer's response ends changes neither that
\* viewer's received parts, nor any other viewer, nor the subprocesses, the
\* subprocess list or the servers; and a chunk read while some viewer of the
\* camera has gone is written to every viewer of the camera still open.
C20_Step ==
    /\ \A v \in DOMAIN viewers :
          (v \in DOMAIN viewers' /\ viewers[v].open /\ ~viewers'[v].open) =>
             /\ viewers'[v].recv = viewers[v].recv
             /\ \A w \in DOMAIN viewers : w # v => viewers'[w] = viewers[w]
             /\ sProcs' = sProcs
             /\ ffmpegProcesses' = ffmpegProcesses
             /\ httpServers' = httpServers
    /\ \A k \in DOMAIN sProcs :
          (/\ Len(sProcs'[k].chunks) > Len(sProcs[k].chunks)
           /\ \E v \in DOMAIN viewers : viewers[v].proc = k /\ ~viewers[v].open)
          => \A w \in DOMAIN viewers :
                (viewers[w].proc = k /\ viewers[w].open) =>
                   /\ viewers'[w].open
                   /\ viewers'[w].recv =
                         viewers[w].recv \o Frame(sProcs'[k].chunks[Len(sProcs'[k].chunks)])

C20_DisconnectIsLocal == [][C20_Step]_vars

C20_Witness ==
    /\ Len(viewers) = 2
    /\ viewers[1].proc = viewers[2].proc
    /\ ~viewers[1].open /\ viewers[2].open
    /\ viewers[1].since = 0 /\ viewers[2].since = 0
    /\ Len(viewers[1].recv) = 4
    /\ Len(viewers[2].recv) = 8
    /\ sProcs[viewers[1].proc].st = "running"

\* C21: a viewer's response has had its multipart head written once, and
\* what was written after it is, chunk by chunk from the first chunk read
\* after the connection, the boundary, the image/jpeg content type, the
\* content length equal to the chunk's length, and the chunk's bytes.
C21_Framing ==
    \A v \in DOMAIN viewers :
        LET r      == viewers[v].recv
            chunks == sProcs[viewers[v].proc].chunks
        IN  /\ viewers[v].head = << StreamHead >>
            /\ Len(r) % 4 = 0
            /\ \A g \in 0 .. ((Len(r) \div 4) - 1) :
                  /\ r[4 * g + 1].part = "boundary"
                  /\ r[4 * g + 2].part = "content-type"
                  /\ r[4 * g + 3].part = "content-length"
                  /\ r[4 * g + 4].part = "data"
                  /\ viewers[v].since + g + 1 <= Len(chunks)
                  /\ r[4 * g + 4].seq = chunks[viewers[v].since + g + 1].seq
                  /\ r[4 * g + 4].len = chunks[viewers[v].since + g + 1].len
                  /\ r[4 * g + 3].len = r[4 * g + 4].len

C21_Witness ==
    /\ Len(viewers) = 1
    /\ Len(viewers[1].recv) = 8
    /\ viewers[1].recv[4].seq = 1
    /\ viewers[1].recv[8].seq = 2

\* C26: a camera one of whose viewers has had a chunk refused by its
\* response is Failed: its subprocess is not running.
C26_WriteErrorFails ==
    \A v \in DOMAIN viewers :
        viewers[v].lost > 0 => sProcs[viewers[v].proc].st # "running"

\* C22: once cleanup has run, the kill of every subprocess of the list has
\* been attempted, with SIGTERM sent wherever the kill did not throw, and
\* every server has been closed, whichever kills threw.
C22_Shutdown ==
    sPhase = "exited" =>
        /\ \A i \in DOMAIN ffmpegProcesses :
              sProcs[ffmpegProcesses[i]].signal \in {"SIGTERM", "threw"}
        /\ \A k \in DOMAIN sProcs :
              sProcs[k].signal # "none" => \E i \in DOMAIN ffmpegProcesses : ffmpegProcesses[i] = k
        /\ \A i \in DOMAIN httpServers : httpServers[i].closed

C22_Witness ==
    /\ sPhase = "exited"
    /\ ffmpegProcesses = <<1>>
    /\ sProcs[1].signal = "threw"
    /\ httpServers[1].closed
    /\ sProcs[1].st = "running"
    /\ sProcs[1].chunks # <<>>

\* ================================================= claims, continued

\* new is old with k records put in front of it and the records beyond the
\* limit dropped from its end, for some k up to most.
PutInFront(old, new, limit, most) ==
    \/ new = old
    \/ \E k \in 1 .. most :
          /\ Len(new) = Min(Len(old) + k, limit)
          /\ \A i \in (k + 1) .. Len(new) : new[i] = old[i - k]

\* C23: every step leaves each buffer as it was or puts its new records in
\* front, keeping the others in their order and dropping only from the end
\* what exceeds the capacity; the record of a prediction that succeeds in
\* the step, and of a capture that fails in it, is the first afterwards.
C23_NewestFirst ==
    [][ /\ PutInFront(predictions, predictions', MAX_PREDICTIONS, 1)
        /\ PutInFront(systemErrors, systemErrors', MAX_SYSTEM_ERRORS, 2)
        /\ \A t \in Ticks, c \in CamIds :
              /\ (cap[t][c].infer # "ok" /\ cap'[t][c].infer = "ok")
                    => predictions'[1] = [cameraId |-> c, model |-> tickModel[t]]
              /\ (cap[t][c].st = "pending" /\ cap'[t][c].st = "rejected")
                    => /\ systemErrors'[1] = [cameraId |-> c, error |-> "loop"]
                       /\ systemErrors'[2] = [cameraId |-> c, error |-> cap'[t][c].reason]
      ]_vars

\* C23 witness: both buffers were full, camera 1 was predicted and camera 0
\* failed: their records are in front of the older ones.
C23_Witness ==
    /\ Len(predictions) = MAX_PREDICTIONS
    /\ predictions[1].cameraId = 1
    /\ predictions[2].cameraId = 0
    /\ Len(systemErrors) = MAX_SYSTEM_ERRORS
    /\ cap[1][0].st = "rejected"
    /\ systemErrors[2] = [cameraId |-> 0, error |-> cap[1][0].reason]
    /\ systemErrors[3] = [cameraId |-> 0, error |-> "loop"]

\* C24: for each call of predictionLoop and camera, the inference request is
\* issued in the step in which the capture of that call succeeds and in no
\* other, is never issued again once it has returned, and a record is put
\* into predictions only in a step in which a pending request succeeds, one
\* record, with that camera and the model of that call.
C24_Step ==
    /\ \A t \in Ticks, c \in CamIds :
          LET x == cap[t][c]
              y == cap'[t][c]
          IN  /\ (x.infer = "none" /\ y.infer # "none")
                    => y.infer = "pending" /\ x.st = "pending" /\ y.st = "resolved"
              /\ x.infer = "pending" => y.infer \in {"pending", "ok", "fail"}
              /\ x.infer \in {"ok", "fail"} => y.infer = x.infer
              /\ y.infer # "none" => y.st = "resolved" /\ y.code = 0 /\ y.hasData
    /\ predictions' # predictions =>
          /\ Len(predictions') = Len(predictions) + 1
          /\ \E t \in Ticks, c \in CamIds :
                /\ cap[t][c].infer = "pending"
                /\ cap'[t][c].infer = "ok"
                /\ predictions'[1] = [cameraId |-> c, model |-> tickModel[t]]

C24_OneInferencePerCapture == [][C24_Step]_vars

\* C24 witness: of two cameras of one call the capture of one failed, the
\* request of the other succeeded: one record.
C24_Witness ==
    /\ Len(cameras) = 2
    /\ cap[1][0].st = "rejected" /\ cap[1][0].infer = "none"
    /\ cap[1][1].infer = "ok"
    /\ predictions = << [cameraId |-> 1, model |-> tickModel[1]] >>

\* C25: the record of a request that succeeds is put in front of the
\* records of the requests of the same call that succeeded before it,
\* whatever the ids of their cameras.
C25_Step ==
    \A t \in Ticks, c \in CamIds :
        (cap[t][c].infer = "pending" /\ cap'[t][c].infer = "ok") =>
            /\ predictions'[1].cameraId = c
            /\ \A d \in CamIds \ {c} :
                  cap[t][d].infer = "ok" =>
                     \E j \in 2 .. Len(predictions') :
                        /\ predictions'[j] = [cameraId |-> d, model |-> tickModel[t]]
                        /\ predictions[j - 1] = predictions'[j]

C25_CompletionOrder == [][C25_Step]_vars

\* C25 witness: the request of camera 1 succeeded before that of camera 0.
C25_Witness ==
    /\ Len(cameras) = 2
    /\ cap[1][0].infer = "ok"
    /\ cap[1][1].infer = "ok"
    /\ predictions = << [cameraId |-> 0, model |-> tickModel[1]],
                        [cameraId |-> 1, model |-> tickModel[1]] >>

\* C27: once initialize has assigned them, no step changes the camera list
\* or the roster.
C27_DetectionImmutable ==
    [][ phase = "running" => cameras' = cameras /\ currentModels' = currentModels ]_vars

\* C27 witness: two cameras and three models after a call that predicted
\* for one camera and failed for the other.
C27_Witness ==
    /\ cameras = detectCameras(2)
    /\ currentModels = <<"A", "B", "C">>
    /\ completed = <<1>>
    /\ predictions # <<>>
    /\ systemErrors # <<>>

\* C29: with a roster that is not empty the cursor is one of its indices
\* and the current model of the status query one of its members.
C29_CursorInRange ==
    Len(currentModels) > 0 =>
        /\ currentModelIndex \in 0 .. (Len(currentModels) - 1)
        /\ \E i \in DOMAIN currentModels :
              ModelAt(currentModels, currentModelIndex) = currentModels[i]

\* C29 witness: two calls have completed on a roster of two, the second
\* started before the first completed; the cursor is back at 0.
C29_Witness ==
    /\ Len(currentModels) = 2
    /\ completed = <<1, 2>>
    /\ tickModel[2] = tickModel[1]
    /\ currentModelIndex = 0

\* C30: the model of a call is the roster's model at the cursor in the step
\* that starts the call and is not changed afterwards, and the record of a
\* request of the call that succeeds carries it, wherever the cursor is then.
C30_Step ==
    /\ \A t \in Ticks :
          /\ (tickModel[t] = "none" /\ tickModel'[t] # "none")
                => tickModel'[t] = currentModels[currentModelIndex + 1]
          /\ tickModel[t] # "none" => tickModel'[t] = tickModel[t]
    /\ \A t \in Ticks, c \in CamIds :
          (cap[t][c].infer = "pending" /\ cap'[t][c].infer = "ok")
             => predictions'[1].model = tickModel[t]

C30_RecordCarriesTickModel == [][C30_Step]_vars

\* C30 witness: the second call started before the first completed; when
\* its request succeeded the cursor had moved on, and its record carries
\* the model both calls started with.
C30_Witness ==
    /\ currentModels = <<"A", "B", "C">>
    /\ completed = <<1, 2>>
    /\ tickModel[2] = "A"
    /\ cap[2][0].infer = "ok"
    /\ cap[1][0].infer # "ok"
    /\ predictions = << [cameraId |-> 0, model |-> "A"] >>
    /\ currentModelIndex = 2

\* C28: a capture that has not settled still has its timer ahead of it, so
\* that the call it belongs to completes whatever the subprocess does.
C28_TickCompletes ==
    \A t \in Ticks, c \in CamIds :
        cap[t][c].st = "pending" => cap[t][c].timer = "armed"

\* Error records of camera c in the buffer.
ErrorsOf(c) == { i \in DOMAIN systemErrors : systemErrors[i].cameraId = c }

\* Capture attempts of camera c that have failed.
FailedAttempts(c) == { t \in Ticks : cap[t][c].st = "rejected" }

\* C31: the buffer holds one error record of a camera for each of its failed
\* capture attempts, and no more.
C31_OneRecordPerFailure ==
    \A c \in CamIds : Cardinality(ErrorsOf(c)) = Cardinality(FailedAttempts(c))

\* C32: a step of a capture attempt that has already resolved or rejected
\* (its timer, or the exit of its subprocess) appends no error record and
\* does not signal the subprocess.
C32_NoLateEffects ==
    [][ \A t \in Ticks, c \in CamIds :
          (cap[t][c].st \in {"resolved", "rejected"} /\ cap'[t][c] # cap[t][c])
             => /\ systemErrors' = systemErrors
                /\ cap'[t][c].killed = cap[t][c].killed ]_vars

\* The 'data' listeners attached to the stdout of subprocess k.
Subscribers(k) == { i \in DOMAIN viewers : viewers[i].proc = k }

\* The viewers of subprocess k whose response has not been ended.
Connected(k) == { i \in DOMAIN viewers : viewers[i].proc = k /\ viewers[i].open }

\* C33: a subprocess has as many 'data' listeners as connected viewers, and
\* no write is made to a response that has been ended.
C33_SubscriptionRemoved ==
    /\ \A k \in DOMAIN sProcs : Cardinality(Subscribers(k)) = Cardinality(Connected(k))
    /\ \A v \in DOMAIN viewers : viewers[v].lost = 0

\* ------------------------------------- streams, with the time of connection
\* What subprocess p has written to its stdout so far, read or not.
Produced(p) ==
    p.pipe + (IF p.chunks = <<>> THEN 0 ELSE p.chunks[Len(p.chunks)].upto)

\* Connect, with the viewer also remembering what the subprocess had written
\* when its listener was attached (at).  The program keeps no such value.
ConnectAt(k, slow) ==
    /\ sPhase = "streaming"
    /\ Len(viewers) < MaxViewers
    /\ Len(viewers) + Written(sProcs) < MaxLoad
    /\ LET p == httpServers[k].proc IN
       viewers' = Append(viewers, [ proc |-> p, open |-> TRUE, slow |-> slow,
                                    head |-> << StreamHead >>, recv |-> <<>>,
                                    lost |-> 0, since |-> Len(sProcs[p].chunks),
                                    at |-> Produced(sProcs[p]) ])
    /\ UNCHANGED << sPhase, sCameras, sProcs, ffmpegProcesses, httpServers >>
    /\ UNCHANGED notStr

NextStreamAt ==
    \/ Main
    \/ Cleanup
    \/ \E k \in DOMAIN sProcs : Produce(k)
    \/ \E k \in DOMAIN sProcs : StdoutData(k)
    \/ \E k \in DOMAIN sProcs : StreamExit(k)
    \/ \E k \in DOMAIN sProcs : StreamError(k)
    \/ \E k \in DOMAIN sProcs : StreamClose(k)
    \/ \E k \in DOMAIN httpServers : \E slow \in BOOLEAN : ConnectAt(k, slow)
    \/ \E v \in DOMAIN viewers : Disconnect(v)

SpecStreamAt == InitStream /\ [][NextStreamAt]_vars

\* The chunks of its subprocess that viewer v has been sent, in order.
ChunksSent(v) ==
    LET data == SelectSeq(viewers[v].recv, LAMBDA x : x.part = "data")
    IN  [ i \in DOMAIN data |-> sProcs[viewers[v].proc].chunks[data[i].seq] ]

\* C34: a viewer is sent the chunks of its subprocess in the order of
\* production, none twice, and none that holds output written before the
\* viewer connected.
C34_OnlyWhileConnected ==
    \A v \in DOMAIN viewers :
        LET sent == ChunksSent(v) IN
        /\ \A i \in DOMAIN sent : sent[i].upto - sent[i].len >= viewers[v].at
        /\ \A i, j \in DOMAIN sent : i < j => sent[i].seq < sent[j].seq

\* C35: whatever resolved a probe (the exit with any output, the error, the
\* timer), its resolution is at most 1920 wide and 1080 high, and so is the
\* resolution of every camera detected.
C35_WithinLimit ==
    /\ \A i \in DeviceIds :
          dProbes[i].st = "resolved"
             => /\ dProbes[i].value[1] <= MAX_WIDTH
                /\ dProbes[i].value[2] <= MAX_HEIGHT
    /\ dProgram = "streams"
          => \A k \in DOMAIN dDetected :
                /\ dDetected[k].resolution[1] <= MAX_WIDTH
                /\ dDetected[k].resolution[2] <= MAX_HEIGHT

\* C35 witness: one probe exited with an output that lists 3840x2160 and
\* 640x480, the next timed out.
C35_Witness ==
    /\ dPhase = "done"
    /\ dProbes[0].by = "close"
    /\ dProbes[0].value = <<640, 480>>
    /\ dProbes[1].by = "timeout"
    /\ dDetected[1].resolution = <<640, 480>>
    /\ dDetected[2].resolution = FallbackResolution

\* C36: the event that resolves a pending probe fixes its resolution (that
\* of the output at an exit, 1280x720 at an error or at the timer); no later
\* event of the probe changes it, nor the camera entry made from it.
C36_Step ==
    \A i \in DeviceIds :
        /\ (dProbes[i].st = "pending" /\ dProbes'[i].st = "resolved")
              => /\ dProbes'[i].by = "close" =>
                       /\ dProbes'[i].proc = "exited"
                       /\ dProbes'[i].timer = "armed"
                 /\ dProbes'[i].by = "error" => dProbes'[i].value = FallbackResolution
                 /\ dProbes'[i].by = "timeout" =>
                       /\ dProbes'[i].timer = "fired"
                       /\ dProbes'[i].value = FallbackResolution
                 /\ dDetected' = Append(dDetected,
                                        CameraEntry(dProgram, i, dDevices[i + 1],
                                                    dProbes'[i].value))
        /\ dProbes[i].st = "resolved"
              => /\ dProbes'[i].st = "resolved"
                 /\ dProbes'[i].value = dProbes[i].value
                 /\ dProbes'[i].by = dProbes[i].by
                 /\ dDetected'[i + 1] = dDetected[i + 1]

C36_FirstEventFixesResult == [][C36_Step]_vars

\* C36 witness: the timer of probe 0 fired after its exit had resolved it
\* with 1920x1080, and probe 1 exited after its timer had resolved it.
C36_Witness ==
    /\ dProbes[0].by = "close"
    /\ dProbes[0].value = <<1920, 1080>>
    /\ dProbes[0].timer = "fired"
    /\ dProbes[1].by = "timeout"
    /\ dProbes[1].killed
    /\ dProbes[1].proc = "exited"
    /\ dDetected[1].resolution = <<1920, 1080>>
    /\ dDetected[2].resolution = FallbackResolution

====
